---- MODULE Spec2Model ----
(***************************************************************************)
(* A model of MP3Player (src/MP3Player/mp3player.py): the controller's     *)
(* fields, the Tk listbox and buttons that mirror them, the pygame mixer's *)
(* music channel, and the Tk "after" queue of pending timer callbacks.     *)
(* Every button / double-click handler and every timer callback is one     *)
(* atomic action: Tk runs them one at a time on its single event loop.     *)
(*                                                                         *)
(* Environment the model assumes: the assets named in the module docstring *)
(* (visualizer.gif, app_icon.ico) are present, so __init__ decodes the     *)
(* frames (lines 76-83), and the mixer can load every playlist file.       *)
(* stop_music (lines 175-179) is bound to no widget and called by nothing, *)
(* so it is not an action.  Indices are 0-based as in Python; sequence     *)
(* access adds 1.                                                          *)
(***************************************************************************)
EXTENDS Integers, Sequences, FiniteSets, Bags, TLC

VARIABLES
    playlist,            \* self.playlist: sequence of [path, name]
    playlistBox,         \* items of self.playlistBox (the visible names)
    curselection,        \* self.playlistBox.curselection(): <<>> or <<i>>
    resume_position,     \* self.resume_position
    is_music_playing,    \* self.is_music_playing
    visualizer_index,    \* self.visualizer_index
    visualizer_image,    \* frame shown by self.visualizer_label, or NoImage
    current_song_index,  \* self.current_song_index
    repeat,              \* self.repeat
    shuffle,             \* self.shuffle
    repeatRelief,        \* relief of self.repeatButton
    shuffleRelief,       \* relief of self.shuffleButton
    pauseButtonText,     \* text of self.pause_resumeButton
    time_label,          \* text of self.time_label
    mixer,               \* pygame mixer.music: [loaded, start, state]
    afterQueue,          \* bag of callbacks scheduled with root.after
    listed,              \* what os.listdir returned to the last handler
    raised               \* the exception the last handler ended with

vars == <<playlist, playlistBox, curselection, resume_position,
          is_music_playing, visualizer_index, visualizer_image,
          current_song_index, repeat,
          shuffle, repeatRelief, shuffleRelief, pauseButtonText, time_label,
          mixer, afterQueue, listed, raised>>

\* groups used in the UNCHANGED clauses
boxVars == <<playlistBox, curselection>>
visVars == <<visualizer_index, visualizer_image>>
flagVars == <<repeat, shuffle, repeatRelief, shuffleRelief>>
playVars == <<resume_position, is_music_playing, mixer, afterQueue,
              time_label>>
----------------------------------------------------------------------------
(* Bounds *)

MaxLen == 2        \* longest playlist add_song builds
NFrames == 2       \* frames decoded from visualizer.gif
MaxVis == 2        \* most pending display_visualizer_frame callbacks
MaxTime == 3       \* most pending display_time callbacks

----------------------------------------------------------------------------
(* The file system the dialogs and os.listdir see.  File names are         *)
(* sequences of characters so that lower() and endswith() are computed.    *)

NameA == <<"a", ".", "m", "p", "3">>
NameB == <<"b", ".", "M", "P", "3">>
NameC == <<"c", ".", "t", "x", "t">>
NameD == <<"d", ".", "m", "p", "3">>

\* Directory entries: b.MP3 is a file that mixer.Sound cannot decode, c.txt
\* is a regular file that is no MP3, d.mp3 is a sub-directory.
EntryA == [name |-> NameA, isFile |-> TRUE,  soundOk |-> TRUE,  length |-> 185]
EntryB == [name |-> NameB, isFile |-> TRUE,  soundOk |-> FALSE, length |-> 62]
EntryC == [name |-> NameC, isFile |-> TRUE,  soundOk |-> TRUE,  length |-> 7]
EntryD == [name |-> NameD, isFile |-> FALSE, soundOk |-> FALSE, length |-> 0]
DirEntries == {EntryA, EntryB, EntryC, EntryD}

Folder == "music"
\* what a cancelled dialog returns: the empty string / the empty path
NoFolder == ""
NoFile == <<>>

join(folder, file_name) == <<folder, file_name>>
basename(path) == path[Len(path)]
EntryAt(path) == CHOOSE e \in DirEntries : e.name = basename(path)
isfile(path) == EntryAt(path).isFile

lowerChar(c) ==
    CASE c = "M" -> "m"
      [] c = "P" -> "p"
      [] OTHER -> c
lower(s) == [i \in 1..Len(s) |-> lowerChar(s[i])]
endswith(s, suffix) ==
    /\ Len(s) >= Len(suffix)
    /\ SubSeq(s, Len(s) - Len(suffix) + 1, Len(s)) = suffix
DotMp3 == <<".", "m", "p", "3">>

Unknown == <<"U", "n", "k", "n", "o", "w", "n">>

\* get_song_name: the file name, or "Unknown" when mixer.Sound raises.
get_song_name(path) ==
    IF EntryAt(path).soundOk THEN basename(path) ELSE Unknown

Song(path) == [path |-> path, name |-> get_song_name(path)]

\* os.listdir: the entries present, in an order the OS chooses.  The
\* directory states the model lets the user pick:
Listings ==
    { <<EntryA>>,
      <<EntryC, EntryD>>,
      <<EntryA, EntryD, EntryB>>,
      <<EntryD, EntryB, EntryC, EntryA>> }

\* askopenfilename with filetypes "*.mp3": the dialog offers the folder's
\* regular files that match the pattern as written.
DialogFiles ==
    { join(Folder, e.name) :
        e \in { d \in DirEntries : d.isFile /\ endswith(d.name, DotMp3) } }

----------------------------------------------------------------------------
(* The visualizer frames, the mixer and the Tk timer queue. *)

GifDuration == 40          \* gif.info['duration'] of the first frame
RestDuration == 100        \* duration given to every later frame
TimePeriod == 1000         \* period of the display_time chain

\* list(self.get_frames(gif)): the duration of frame i (the image is not
\* modelled).
visualizer_frames == [i \in 0..(NFrames - 1) |->
                        IF i = 0 THEN GifDuration ELSE RestDuration]

NoSong == <<>>
\* tk.Label(root, image=None, ...): no frame drawn yet
NoImage == -1
VisCb == "display_visualizer_frame"
TimeCb == "display_time"

Timer(ms, cb) == [cb |-> cb, ms |-> ms]
\* root.after(ms, cb)
after(q, ms, cb) == q (+) SetToBag({Timer(ms, cb)})
\* the callback leaves the queue when Tk fires it
fired(q, t) == q (-) SetToBag({t})

\* how many callbacks cb are pending in q
Pending(q, cb) ==
    LET S == {t \in DOMAIN q : t.cb = cb}
    IN  BagCardinality([t \in S |-> q[t]])

\* mixer.music.load(path); mixer.music.play(start=pos)
mixerPlay(path, pos) == [loaded |-> path, start |-> pos, state |-> "playing"]
\* mixer.music.pause(): only a playing stream is suspended
mixerPause(m) == IF m.state = "playing" THEN [m EXCEPT !.state = "paused"] ELSE m
\* mixer.music.unpause(): only a paused stream is resumed
mixerUnpause(m) == IF m.state = "paused" THEN [m EXCEPT !.state = "playing"] ELSE m

\* f"{minutes}:{seconds:02d}" is kept as the pair <<minutes, seconds>>
mmss(secs) == <<secs \div 60, secs % 60>>
\* positions mixer.music.get_pos() reports, in milliseconds
PosSamples == {61500}
TimeText(pos_ms, total_secs) ==
    [elapsed |-> mmss(pos_ms \div 1000), total |-> mmss(total_secs)]
InitialTimeText == [elapsed |-> <<0, 0>>, total |-> <<0, 0>>]

----------------------------------------------------------------------------
(* Pure parts of the handlers. *)

\* a removal that pops the last entry whatever is selected
RemoveLast(s, i) == SubSeq(s, 1, Len(s) - 1)
\* del self.playlist[i]
RemoveAt(s, i) == SubSeq(s, 1, i) \o SubSeq(s, i + 2, Len(s))

\* the loop of add_folder with the extension compared as written
RECURSIVE FolderSongsExact(_, _)
FolderSongsExact(folder_path, listing) ==
    IF listing = <<>> THEN <<>>
    ELSE LET file_name == Head(listing).name
             file_path == join(folder_path, file_name)
             rest == FolderSongsExact(folder_path, Tail(listing))
         IN  IF isfile(file_path) /\ endswith(file_name, DotMp3)
             THEN <<Song(file_path)>> \o rest
             ELSE rest

\* the loop of add_folder over os.listdir(folder_path)
RECURSIVE FolderSongs(_, _)
FolderSongs(folder_path, listing) ==
    IF listing = <<>> THEN <<>>
    ELSE LET file_name == Head(listing).name
             file_path == join(folder_path, file_name)
             rest == FolderSongs(folder_path, Tail(listing))
         IN  IF isfile(file_path) /\ endswith(lower(file_name), DotMp3)
             THEN <<Song(file_path)>> \o rest
             ELSE rest

\* add_folder's result for each listing, computed once
FolderResult == [listing \in Listings |-> FolderSongs(Folder, listing)]

\* a preview that ends with one row more than the playlist has entries
PreviewPadded(pl) == Append([i \in 1..Len(pl) |-> pl[i].name], Unknown)
\* the names update_playlist_preview inserts, in playlist order
PreviewOf(pl) == [i \in 1..Len(pl) |-> pl[i].name]

\* a shuffle that draws every position independently (random.choices)
ShufflesSampled(s) ==
    { [i \in 1..Len(s) |-> s[f[i]]] : f \in [1..Len(s) -> 1..Len(s)] }
\* random.shuffle(self.playlist): any permutation of the entries
Shuffles(s) ==
    { [i \in 1..Len(s) |-> s[p[i]]] : p \in Permutations(1..Len(s)) }

\* a previous that stops at the first song instead of wrapping
PrevIndexNoWrap(i, n) == IF i = 0 THEN 0 ELSE i - 1
PrevIndex(i, n) == (i - 1) % n
\* a next that stops at the last song instead of wrapping
NextIndexNoWrap(i, n) == IF i + 1 >= n THEN n - 1 ELSE i + 1
\* a next that wraps only while repeat is on
NextIndexRepeat(i, n) == IF repeat \/ i + 1 < n THEN (i + 1) % n ELSE i % n
NextIndex(i, n) == (i + 1) % n

----------------------------------------------------------------------------
(* The state after MP3Player.__init__: nothing loaded, the visualizer      *)
(* callback of line 83 found nothing playing and scheduled nothing, and    *)
(* line 115 started the display_time chain.                                *)

NotListed == [read |-> FALSE, entries |-> <<>>]
Listed(listing) == [read |-> TRUE, entries |-> listing]

Init ==
    /\ playlist = <<>>
    /\ playlistBox = <<>>
    /\ curselection = <<>>
    /\ resume_position = 0
    /\ is_music_playing = FALSE
    /\ visualizer_index = 0
    /\ visualizer_image = NoImage
    /\ current_song_index = 0
    /\ repeat = FALSE
    /\ shuffle = FALSE
    /\ repeatRelief = "flat"
    /\ shuffleRelief = "flat"
    /\ pauseButtonText = "Pause"
    /\ time_label = InitialTimeText
    /\ mixer = [loaded |-> NoSong, start |-> -1, state |-> "stopped"]
    /\ afterQueue = SetToBag({Timer(TimePeriod, TimeCb)})
    /\ listed = NotListed
    /\ raised = "none"

\* The model stops scheduling when the queue holds this many callbacks.
RoomFor(vis, time) ==
    /\ Pending(afterQueue, VisCb) + vis <= MaxVis
    /\ Pending(afterQueue, TimeCb) + time <= MaxTime

\* texts that show the duration of the song under the cursor
TimeTextsCursor(playing, pl) ==
    IF playing /\ pl # <<>>
    THEN {time_label} \cup
         { TimeText(pos, EntryAt(pl[IF current_song_index < Len(pl)
                                    THEN current_song_index + 1
                                    ELSE 1].path).length) :
             pos \in PosSamples }
    ELSE {time_label}

\* The texts one run of display_time's guarded block can leave in the
\* label: a new text, or the old one when mutagen or the mixer raises.
TimeTexts(playing, pl) ==
    IF playing /\ pl # <<>>
    THEN {time_label} \cup
         { TimeText(pos, EntryAt(pl[1].path).length) : pos \in PosSamples }
    ELSE {time_label}

\* a refresh that keeps the selection
update_playlist_preview_keep ==
    /\ playlistBox' = PreviewOf(playlist')
    /\ UNCHANGED curselection
\* update_playlist_preview: the listbox is emptied, which drops the
\* selection, and refilled from the playlist
update_playlist_preview ==
    /\ playlistBox' = PreviewOf(playlist')
    /\ curselection' = <<>>

\* a display_album_cover that schedules nothing
display_album_cover_idle(q) == q
\* display_album_cover(path): schedules one visualizer callback after the
\* current frame's duration
display_album_cover(q) ==
    after(q, visualizer_frames[visualizer_index], VisCb)

\* a play_music that rewinds the visualizer (as stop_music does)
play_music_rewind(idx) ==
    IF playlist = <<>> \/ idx \notin 0..(Len(playlist) - 1)
    THEN /\ UNCHANGED <<playVars, visVars>>
         /\ raised' = IF playlist = <<>> THEN "none" ELSE "IndexError"
    ELSE /\ RoomFor(1, 1)
         /\ visualizer_index' = 0
         /\ UNCHANGED visualizer_image
         /\ resume_position' = 0
         /\ mixer' = mixerPlay(playlist[idx + 1].path, resume_position')
         /\ is_music_playing' = TRUE
         /\ time_label' \in TimeTexts(TRUE, playlist)
         /\ afterQueue' = after(after(afterQueue, visualizer_frames[0], VisCb),
                                TimePeriod, TimeCb)
         /\ raised' = "none"

\* play_music, entered with the cursor already set to idx by its caller.
play_music(idx) ==
    IF playlist = <<>>
    THEN /\ UNCHANGED <<playVars, visVars>>
         /\ raised' = "none"
    ELSE IF idx \notin 0..(Len(playlist) - 1)
    THEN \* self.playlist[selected_song] raises before anything changed
         /\ UNCHANGED <<playVars, visVars>>
         /\ raised' = "IndexError"
    ELSE /\ RoomFor(1, 1)
         /\ UNCHANGED visVars
         /\ resume_position' = 0
         /\ mixer' = mixerPlay(playlist[idx + 1].path, resume_position')
         /\ is_music_playing' = TRUE
         /\ time_label' \in TimeTexts(TRUE, playlist)
         /\ afterQueue' = after(display_album_cover(afterQueue),
                                TimePeriod, TimeCb)
         /\ raised' = "none"

----------------------------------------------------------------------------
(* The handlers. *)

\* a click on item i of the listbox (selectmode SINGLE)
select_item ==
    \E i \in 0..(Len(playlistBox) - 1) :
        /\ curselection' = <<i>>
        /\ listed' = NotListed
        /\ raised' = "none"
        /\ UNCHANGED <<playlist, playlistBox, visVars,
                       current_song_index, pauseButtonText>>
        /\ UNCHANGED <<flagVars, playVars>>

add_song ==
    \E path \in DialogFiles \cup {NoFile} :
        /\ IF path # NoFile
           THEN /\ Len(playlist) < MaxLen
                /\ playlist' = Append(playlist, Song(path))
                /\ update_playlist_preview
           ELSE UNCHANGED <<playlist, boxVars>>
        /\ listed' = NotListed
        /\ raised' = "none"
        /\ UNCHANGED <<visVars, current_song_index, pauseButtonText>>
        /\ UNCHANGED <<flagVars, playVars>>

\* a remove_song that pulls the cursor back inside the shorter playlist
remove_song_clamp ==
    /\ IF curselection # <<>>
       THEN LET selected_song == curselection[1]
            IN  IF selected_song \in 0..(Len(playlist) - 1)
                THEN /\ playlist' = RemoveAt(playlist, selected_song)
                     /\ update_playlist_preview
                     /\ current_song_index' =
                          IF current_song_index >= Len(playlist')
                          THEN IF playlist' = <<>> THEN 0
                               ELSE Len(playlist') - 1
                          ELSE current_song_index
                     /\ raised' = "none"
                ELSE /\ UNCHANGED <<playlist, boxVars, current_song_index>>
                     /\ raised' = "IndexError"
       ELSE /\ UNCHANGED <<playlist, boxVars, current_song_index>>
            /\ raised' = "none"
    /\ listed' = NotListed
    /\ UNCHANGED <<visVars, pauseButtonText>>
    /\ UNCHANGED <<flagVars, playVars>>

remove_song ==
    /\ IF curselection # <<>>
       THEN LET selected_song == curselection[1]
            IN  IF selected_song \in 0..(Len(playlist) - 1)
                THEN /\ playlist' = RemoveAt(playlist, selected_song)
                     /\ update_playlist_preview
                     /\ raised' = "none"
                ELSE \* del self.playlist[selected_song] raises
                     /\ UNCHANGED <<playlist, boxVars>>
                     /\ raised' = "IndexError"
       ELSE /\ UNCHANGED <<playlist, boxVars>>
            /\ raised' = "none"
    /\ listed' = NotListed
    /\ UNCHANGED <<visVars, current_song_index, pauseButtonText>>
    /\ UNCHANGED <<flagVars, playVars>>

add_folder ==
    \E folder_path \in {Folder, NoFolder} :
        /\ IF folder_path # NoFolder
           THEN \E listing \in Listings :
                    /\ listed' = Listed(listing)
                    /\ playlist' = FolderResult[listing]
                    /\ update_playlist_preview
           ELSE /\ listed' = NotListed
                /\ UNCHANGED <<playlist, boxVars>>
        /\ raised' = "none"
        /\ UNCHANGED <<visVars, current_song_index, pauseButtonText>>
        /\ UNCHANGED <<flagVars, playVars>>

\* a pause_resume_music whose resume branch forgets the visualizer
pause_resume_music_still ==
    /\ IF is_music_playing
       THEN /\ mixer' = mixerPause(mixer)
            /\ is_music_playing' = FALSE
            /\ pauseButtonText' = "Resume"
       ELSE /\ mixer' = mixerUnpause(mixer)
            /\ is_music_playing' = TRUE
            /\ pauseButtonText' = "Pause"
    /\ listed' = NotListed
    /\ raised' = "none"
    /\ UNCHANGED <<playlist, boxVars, resume_position, current_song_index,
                   time_label, flagVars, afterQueue, visVars>>

pause_resume_music ==
    /\ IF is_music_playing
       THEN /\ mixer' = mixerPause(mixer)
            /\ is_music_playing' = FALSE
            /\ pauseButtonText' = "Resume"
            /\ UNCHANGED <<afterQueue, visVars>>
       ELSE \* display_visualizer_frame() runs inline with the flag set
            /\ RoomFor(1, 0)
            /\ mixer' = mixerUnpause(mixer)
            /\ is_music_playing' = TRUE
            /\ pauseButtonText' = "Pause"
            /\ visualizer_image' = visualizer_index
            /\ afterQueue' = after(afterQueue,
                                   visualizer_frames[visualizer_index], VisCb)
            /\ visualizer_index' = (visualizer_index + 1) % NFrames
    /\ listed' = NotListed
    /\ raised' = "none"
    /\ UNCHANGED <<playlist, boxVars, resume_position, current_song_index,
                   time_label, flagVars>>

play_previous_song ==
    /\ IF playlist # <<>>
       THEN /\ current_song_index' =
                   PrevIndex(current_song_index, Len(playlist))
            /\ play_music(current_song_index')
       ELSE /\ raised' = "none"
            /\ UNCHANGED <<current_song_index, playVars, visVars>>
    /\ listed' = NotListed
    /\ UNCHANGED <<playlist, boxVars, pauseButtonText, flagVars>>

play_next_song ==
    /\ IF playlist # <<>>
       THEN /\ current_song_index' =
                   NextIndex(current_song_index, Len(playlist))
            /\ play_music(current_song_index')
       ELSE /\ raised' = "none"
            /\ UNCHANGED <<current_song_index, playVars, visVars>>
    /\ listed' = NotListed
    /\ UNCHANGED <<playlist, boxVars, pauseButtonText, flagVars>>

play_selected_song ==
    /\ IF curselection # <<>>
       THEN /\ current_song_index' = curselection[1]
            /\ play_music(current_song_index')
       ELSE /\ raised' = "none"
            /\ UNCHANGED <<current_song_index, playVars, visVars>>
    /\ listed' = NotListed
    /\ UNCHANGED <<playlist, boxVars, pauseButtonText, flagVars>>

toggle_repeat ==
    /\ repeat' = ~repeat
    /\ repeatRelief' = IF repeat' THEN "sunken" ELSE "flat"
    /\ listed' = NotListed
    /\ raised' = "none"
    /\ UNCHANGED <<playlist, boxVars, visVars, current_song_index,
                   shuffle, shuffleRelief, pauseButtonText, playVars>>

toggle_shuffle ==
    /\ shuffle' = ~shuffle
    /\ IF shuffle'
       THEN /\ shuffleRelief' = "sunken"
            /\ playlist' \in Shuffles(playlist)
       ELSE /\ shuffleRelief' = "flat"
            /\ UNCHANGED playlist
    /\ listed' = NotListed
    /\ raised' = "none"
    /\ UNCHANGED <<boxVars, visVars, current_song_index, repeat,
                   repeatRelief, pauseButtonText, playVars>>

----------------------------------------------------------------------------
(* The timer callbacks: Tk fires a pending callback and removes it. *)

\* a callback that draws and reschedules whether or not music plays
display_visualizer_frame_always ==
    \E t \in BagToSet(afterQueue) :
        /\ t.cb = VisCb
        /\ visualizer_image' = visualizer_index
        /\ afterQueue' = after(fired(afterQueue, t),
                               visualizer_frames[visualizer_index], VisCb)
        /\ visualizer_index' = (visualizer_index + 1) % NFrames
        /\ listed' = NotListed
        /\ raised' = "none"
        /\ UNCHANGED <<playlist, boxVars, resume_position, is_music_playing,
                       current_song_index, pauseButtonText, time_label,
                       mixer, flagVars>>

display_visualizer_frame ==
    \E t \in BagToSet(afterQueue) :
        /\ t.cb = VisCb
        /\ IF is_music_playing
           THEN LET duration == visualizer_frames[visualizer_index]
                IN  /\ visualizer_image' = visualizer_index
                    /\ afterQueue' = after(fired(afterQueue, t), duration, VisCb)
                    /\ visualizer_index' = (visualizer_index + 1) % NFrames
           ELSE /\ afterQueue' = fired(afterQueue, t)
                /\ UNCHANGED visVars
        /\ listed' = NotListed
        /\ raised' = "none"
        /\ UNCHANGED <<playlist, boxVars, resume_position, is_music_playing,
                       current_song_index, pauseButtonText, time_label,
                       mixer, flagVars>>

\* a tick that keeps its chain alive only while music plays
display_time_quiet ==
    \E t \in BagToSet(afterQueue) :
        /\ t.cb = TimeCb
        /\ time_label' \in TimeTexts(is_music_playing, playlist)
        /\ afterQueue' = IF is_music_playing
                         THEN after(fired(afterQueue, t), TimePeriod, TimeCb)
                         ELSE fired(afterQueue, t)
        /\ listed' = NotListed
        /\ raised' = "none"
        /\ UNCHANGED <<playlist, boxVars, resume_position, is_music_playing,
                       visVars, current_song_index, pauseButtonText,
                       mixer, flagVars>>

display_time ==
    \E t \in BagToSet(afterQueue) :
        /\ t.cb = TimeCb
        /\ time_label' \in TimeTexts(is_music_playing, playlist)
        /\ afterQueue' = after(fired(afterQueue, t), TimePeriod, TimeCb)
        /\ listed' = NotListed
        /\ raised' = "none"
        /\ UNCHANGED <<playlist, boxVars, resume_position, is_music_playing,
                       visVars, current_song_index, pauseButtonText,
                       mixer, flagVars>>

Next ==
    \/ select_item
    \/ add_song
    \/ remove_song
    \/ add_folder
    \/ pause_resume_music
    \/ play_previous_song
    \/ play_next_song
    \/ play_selected_song
    \/ toggle_repeat
    \/ toggle_shuffle
    \/ display_visualizer_frame
    \/ display_time

Spec == Init /\ [][Next]_vars

----------------------------------------------------------------------------
(* Properties. *)

InRange(i, s) == i \in 0..(Len(s) - 1)

\* a handler that reaches the body of play_music: previous, next, or a
\* double click with an item selected, on a non-empty playlist
PlayTransition ==
    /\ playlist # <<>>
    /\ \/ play_previous_song
       \/ play_next_song
       \/ (curselection # <<>> /\ play_selected_song)

\* C1: a play transition on a non-empty playlist, whatever the state before,
\* loads playlist[cursor] into the mixer from position 0, sets the playing
\* flag and leaves one more visualizer callback pending.
C1_PlayLoadsCursorSong ==
    [][PlayTransition =>
          /\ InRange(current_song_index', playlist)
          /\ mixer' = [loaded |-> playlist[current_song_index' + 1].path,
                       start |-> 0, state |-> "playing"]
          /\ is_music_playing'
          /\ Pending(afterQueue', VisCb) = Pending(afterQueue, VisCb) + 1
          /\ raised' = "none"]_vars

\* C1 witness: a song was played from the paused state (the button still
\* reads "Resume"): it is the cursor's song, playing, with a callback pending.
C1_PlayedFromPaused ==
    /\ is_music_playing
    /\ pauseButtonText = "Resume"
    /\ InRange(current_song_index, playlist)
    /\ mixer = [loaded |-> playlist[current_song_index + 1].path,
                start |-> 0, state |-> "playing"]
    /\ Pending(afterQueue, VisCb) >= 1

\* the cursor after k presses of Next on a playlist of length n
RECURSIVE NextTimes(_, _, _)
NextTimes(i, n, k) ==
    IF k = 0 THEN i ELSE NextTimes(NextIndex(i, n), n, k - 1)

\* C2 as stated: from every cursor the program can reach, N presses of Next
\* on a playlist of length N bring the cursor back.
C2_CycleFromAnyCursor ==
    playlist # <<>> =>
        NextTimes(current_song_index, Len(playlist), Len(playlist))
            = current_song_index

\* C2 amended: from every cursor inside the playlist, N presses of Next on a
\* playlist of length N bring the cursor back.
C2_CycleFromCursorInRange ==
    (playlist # <<>> /\ InRange(current_song_index, playlist)) =>
        NextTimes(current_song_index, Len(playlist), Len(playlist))
            = current_song_index

\* C2 witness: the cursor is on the last of two songs, from where Next wraps.
C2_CursorAtLastSong ==
    /\ Len(playlist) = 2
    /\ current_song_index = 1
    /\ mixer.loaded = playlist[2].path
    /\ NextIndex(current_song_index, Len(playlist)) = 0

\* C3: the visible list shows the names of the playlist entries in playlist
\* order (it holds at start and is claimed to be restored by every operation
\* that changes the playlist).
C3_VisibleListMatchesPlaylist ==
    playlistBox = PreviewOf(playlist)

\* C4 as stated: right after a play transition the visualizer frame index
\* is 0.
C4_PlayResetsFrameIndex ==
    [][PlayTransition => visualizer_index' = 0]_vars

\* C4 amended: a play transition leaves the visualizer frame index as it was.
C4_PlayKeepsFrameIndex ==
    [][PlayTransition => visualizer_index' = visualizer_index]_vars

\* C4 witness: playing at frame index 1 with a single callback pending whose
\* delay is that of frame 1.  The chain itself advances the index after it
\* schedules, so only display_album_cover, called by play_music at index 1,
\* leaves this.
C4_PlayedAtFrameOne ==
    /\ is_music_playing
    /\ mixer.state = "playing"
    /\ visualizer_index = 1
    /\ \A t \in BagToSet(afterQueue) :
          t.cb = VisCb => t.ms = visualizer_frames[1]
    /\ Pending(afterQueue, VisCb) = 1

\* C5: the pause/resume control flips the playing flag.  Pressed with the
\* flag set it suspends a playing mixer and schedules nothing; pressed with
\* the flag clear it resumes a suspended mixer and puts one more visualizer
\* callback in the queue.  Either way the playlist, the cursor and the
\* loaded song stay, so a pause followed by a resume is back at the same
\* song, playing.
C5_PauseResumeAlternates ==
    [][pause_resume_music =>
          /\ is_music_playing' = ~is_music_playing
          /\ UNCHANGED <<playlist, current_song_index>>
          /\ mixer'.loaded = mixer.loaded
          /\ mixer'.start = mixer.start
          /\ IF is_music_playing
             THEN /\ mixer'.state =
                        IF mixer.state = "playing" THEN "paused"
                        ELSE mixer.state
                  /\ UNCHANGED afterQueue
             ELSE /\ mixer'.state =
                        IF mixer.state = "paused" THEN "playing"
                        ELSE mixer.state
                  /\ Pending(afterQueue', VisCb)
                        = Pending(afterQueue, VisCb) + 1]_vars

\* C5 witness: a loaded song is suspended, the flag is clear and the button
\* offers "Resume": Pause has acted on a playing song.
C5_SongPaused ==
    /\ mixer.state = "paused"
    /\ mixer.loaded # NoSong
    /\ ~is_music_playing
    /\ pauseButtonText = "Resume"

\* C6: with an empty playlist next, previous and double-click change neither
\* the cursor, the playing flag, the mixer nor the pending callbacks, and
\* raise nothing.
C6_EmptyPlaylistNoOp ==
    [][(playlist = <<>> /\ (\/ play_next_song
                            \/ play_previous_song
                            \/ play_selected_song)) =>
          /\ UNCHANGED <<current_song_index, is_music_playing, mixer,
                         afterQueue>>
          /\ raised' = "none"]_vars

\* C6 witness: the playlist was emptied while a song plays and the cursor
\* is not 0, so any change a handler made would show.
C6_EmptyWhilePlaying ==
    /\ playlist = <<>>
    /\ is_music_playing
    /\ mixer.state = "playing"
    /\ current_song_index = 1

C8_RemoveKeepsPlayback ==
    [][remove_song =>
          UNCHANGED <<current_song_index, is_music_playing, mixer>>]_vars

\* C8 witness: after a removal the cursor points past the end of the
\* playlist while the removed song keeps playing.
C8_CursorPastEnd ==
    /\ playlist # <<>>
    /\ current_song_index >= Len(playlist)
    /\ ~listed.read
    /\ is_music_playing
    /\ mixer.state = "playing"
    /\ \A j \in 1..Len(playlist) : playlist[j].path # mixer.loaded

\* the entries of a listing that are regular files named *.mp3 in any case
IsMp3File(e) ==
    LET n == e.name
        k == Len(n)
    IN  /\ e.isFile
        /\ k >= 4
        /\ n[k - 3] = "."
        /\ n[k - 2] \in {"m", "M"}
        /\ n[k - 1] \in {"p", "P"}
        /\ n[k] = "3"

\* C9: after add-folder read a directory the playlist holds exactly the
\* listing's regular *.mp3 files (any case), in listing order, and nothing
\* else; a cancelled dialog leaves the playlist unchanged.
C9_AddFolderReplaces ==
    /\ [](listed.read =>
            LET kept == SelectSeq(listed.entries, IsMp3File)
            IN  /\ Len(playlist) = Len(kept)
                /\ \A j \in 1..Len(kept) :
                      playlist[j].path = <<Folder, kept[j].name>>)
    /\ [][(add_folder /\ ~listed'.read) => UNCHANGED playlist]_vars

\* C9 witness: a directory holding only a text file and a sub-directory
\* named d.mp3 was read while a song of the old playlist plays: the playlist
\* is empty.
C9_FolderWithoutSongs ==
    /\ listed.read
    /\ listed.entries = <<EntryC, EntryD>>
    /\ playlist = <<>>
    /\ mixer.loaded # NoSong

\* the entries of a sequence, counted
BagOf(s) ==
    [x \in {s[j] : j \in 1..Len(s)} |->
        Cardinality({j \in 1..Len(s) : s[j] = x})]

\* C10: turning shuffle on keeps the playlist's entries as a multiset;
\* turning it off changes the flag (and the button's relief) and nothing
\* else.
C10_ShufflePermutes ==
    [][toggle_shuffle =>
          IF ~shuffle
          THEN /\ shuffle'
               /\ Len(playlist') = Len(playlist)
               /\ BagOf(playlist') = BagOf(playlist)
          ELSE /\ ~shuffle'
               /\ UNCHANGED <<playlist, boxVars, playVars, visVars,
                              current_song_index, repeat, repeatRelief,
                              pauseButtonText>>]_vars

\* C10 witness: shuffle is on and the playlist is in another order than the
\* list drawn before the shuffle.
C10_Shuffled ==
    /\ shuffle
    /\ Len(playlist) = 2
    /\ playlistBox = <<playlist[2].name, playlist[1].name>>
    /\ playlist[1] # playlist[2]

C12_VisualizerStep ==
    [][display_visualizer_frame =>
          IF is_music_playing
          THEN /\ visualizer_image' = visualizer_index
               /\ visualizer_index' = (visualizer_index + 1) % NFrames
               /\ Pending(afterQueue', VisCb) = Pending(afterQueue, VisCb)
               /\ \E t \in BagToSet(afterQueue) :
                      /\ t.cb = VisCb
                      /\ afterQueue' (-) fired(afterQueue, t) =
                            SetToBag({Timer(
                                IF visualizer_index = 0 THEN GifDuration
                                ELSE RestDuration, VisCb)})
          ELSE /\ UNCHANGED <<visualizer_image, visualizer_index>>
               /\ Pending(afterQueue', VisCb) = Pending(afterQueue, VisCb) - 1
               /\ Pending(afterQueue', TimeCb) = Pending(afterQueue, TimeCb)
               /\ afterQueue' \sqsubseteq afterQueue]_vars

\* C12 witness: a song was played, which scheduled a callback, and none is
\* pending any more: callbacks leave the queue only by firing with the flag
\* clear, so one did, and the frame last drawn is still the one shown.
C12_ChainEnded ==
    /\ mixer.loaded # NoSong
    /\ ~is_music_playing
    /\ Pending(afterQueue, VisCb) = 0
    /\ visualizer_image # NoImage

\* C13: every run of the time tick, playing or not, playlist empty or not,
\* label updated or left alone by a swallowed failure, takes one callback
\* off the queue and puts one back, due 1000 ms later, which leaves the
\* queue holding what it held; so in every reachable state a tick is
\* pending and can fire.  (A tick that finds
\* nothing playing leaves the state as it was, so "ticks never cease" is
\* the tick being enabled for ever: the event loop fires a timer that is
\* due.)
C13_TickForever ==
    /\ [][display_time =>
            /\ afterQueue' = afterQueue
            /\ BagIn([cb |-> TimeCb, ms |-> 1000], afterQueue')]_vars
    /\ [](BagIn([cb |-> TimeCb, ms |-> 1000], afterQueue))
    /\ [](ENABLED display_time)

\* C13 witness: the label was rewritten although no play transition ever
\* ran (nothing is loaded, and only the chain __init__ started is pending):
\* a tick ran, after the pause/resume control set the flag, and its
\* successor is pending.
C13_TickRanBeforeAnyPlay ==
    /\ mixer.loaded = NoSong
    /\ time_label # InitialTimeText
    /\ Pending(afterQueue, TimeCb) = 1
    /\ \E t \in BagToSet(afterQueue) : t = Timer(TimePeriod, TimeCb)

\* C14: a time tick leaves the text alone unless the playing flag is set
\* and the playlist is non-empty, and a text it writes shows the duration
\* of the playlist's first entry, whatever the cursor and the loaded song.
C14_TickShowsFirstEntry ==
    [][display_time =>
          IF is_music_playing /\ playlist # <<>>
          THEN \/ UNCHANGED time_label
               \/ time_label'.total =
                     mmss(EntryAt(playlist[1].path).length)
          ELSE UNCHANGED time_label]_vars

\* C14 witness: the second song is loaded and playing from cursor 1 while
\* the label shows the duration of the first, a different file.
C14_ShowsFirstWhileSecondPlays ==
    /\ Len(playlist) = 2
    /\ current_song_index = 1
    /\ is_music_playing
    /\ mixer.loaded = playlist[2].path
    /\ playlist[1].path # playlist[2].path
    /\ time_label.total = mmss(EntryAt(playlist[1].path).length)
    /\ time_label.total # mmss(EntryAt(playlist[2].path).length)

C16_NoIndexError ==
    /\ raised = "none"
    /\ Len(playlistBox) = Len(playlist)
    /\ curselection # <<>> => InRange(curselection[1], playlist)

\* C16 witness: the cursor is past the end of a non-empty playlist, a song
\* that is no longer the cursor's is loaded, and a row is selected: Next,
\* Previous, Remove and a double click are all about to index the playlist.
C16_CursorOutRowSelected ==
    /\ playlist # <<>>
    /\ ~InRange(current_song_index, playlist)
    /\ curselection # <<>>
    /\ mixer.loaded # NoSong
    /\ raised = "none"

\* C17: in every reachable state at most one visualizer callback is
\* pending.
C17_OneVisualizerChain ==
    Pending(afterQueue, VisCb) <= 1

\* C18: in every reachable state exactly one time-display callback is
\* pending.
C18_OneTimeChain ==
    Pending(afterQueue, TimeCb) = 1

\* C19: once the pause/resume control has been pressed its label agrees
\* with the playing flag: "Resume" exactly when the flag is clear, "Pause"
\* exactly when it is set.  Only a press writes "Resume", so a state whose
\* label reads "Resume" lies after the first press.
C19_LabelMatchesFlag ==
    pauseButtonText = "Resume" =>
        /\ pauseButtonText = "Resume" <=> ~is_music_playing
        /\ pauseButtonText = "Pause" <=> is_music_playing

\* C20: the playing flag is set, and the visualizer animates, only with a
\* song loaded into the mixer.
C20_PlayingImpliesLoaded ==
    (is_music_playing \/ visualizer_image # NoImage) =>
        mixer.loaded # NoSong

====
